---- MODULE Spec2Model ----
(***************************************************************************)
(* State-machine model of the E2EE chat relay backend:                      *)
(*   backend/database.py     the SQLite store (users, messages, sessions)   *)
(*   backend/routes/auth.py  register, login, logout, verify, require_auth  *)
(*   backend/routes/chat.py  users, public-key, send, messages,             *)
(*                           conversations, search-users                    *)
(* Every request runs in a worker slot; a handler is split exactly at its   *)
(* SQL statements (each statement is atomic in SQLite), so that requests    *)
(* interleave the way concurrent Flask requests do.                         *)
(***************************************************************************)
EXTENDS Integers, Sequences, FiniteSets, TLC

(***************************************************************************)
(* Text.  A Python str / SQLite TEXT value is a sequence of one-character   *)
(* strings.  Ascii lists the characters the model uses in code-point order. *)
(***************************************************************************)
Digits == <<"0", "1", "2", "3", "4", "5", "6", "7", "8", "9">>
Upper == <<"A", "B", "C", "D", "E", "F", "G", "H", "I", "J", "K", "L", "M",
           "N", "O", "P", "Q", "R", "S", "T", "U", "V", "W", "X", "Y", "Z">>
Lower == <<"a", "b", "c", "d", "e", "f", "g", "h", "i", "j", "k", "l", "m",
           "n", "o", "p", "q", "r", "s", "t", "u", "v", "w", "x", "y", "z">>
Ascii == <<" ", "!", "%", "-">> \o Digits \o Upper \o <<"_">> \o Lower

Range(s) == {s[i] : i \in DOMAIN s}

\* ord(c): position in code-point order
Code(c) == CHOOSE i \in DOMAIN Ascii : Ascii[i] = c

\* SQLite's built-in LIKE folds the ASCII letters only
ToLower(c) ==
    IF \E i \in DOMAIN Upper : Upper[i] = c
    THEN Lower[CHOOSE i \in DOMAIN Upper : Upper[i] = c]
    ELSE c

\* memcmp order of two TEXT values (SQLite's default BINARY collation)
RECURSIVE TextLess(_, _)
TextLess(a, b) ==
    IF b = <<>> THEN FALSE
    ELSE IF a = <<>> THEN TRUE
    ELSE IF Head(a) = Head(b) THEN TextLess(Tail(a), Tail(b))
    ELSE Code(Head(a)) < Code(Head(b))

\* str.strip(): leading and trailing whitespace removed
RECURSIVE LStrip(_)
LStrip(s) == IF s # <<>> /\ Head(s) = " " THEN LStrip(Tail(s)) ELSE s

RECURSIVE RStrip(_)
RStrip(s) ==
    IF s # <<>> /\ s[Len(s)] = " " THEN RStrip(SubSeq(s, 1, Len(s) - 1)) ELSE s

Strip(s) == RStrip(LStrip(s))

\* str.replace(c, '')
Remove(s, c) == SelectSeq(s, LAMBDA x : x # c)

\* str.isalnum(): non-empty and every character a letter or a digit
IsAlnum(s) ==
    /\ s # <<>>
    /\ \A i \in DOMAIN s : s[i] \in Range(Digits) \cup Range(Upper) \cup Range(Lower)

\* SQLite patternCompare for LIKE: % matches any run of characters, _ matches
\* exactly one character, every other character matches itself ignoring
\* ASCII case.  No ESCAPE clause is given by the callers.
RECURSIVE Like(_, _)
Like(p, s) ==
    IF p = <<>> THEN s = <<>>
    ELSE IF Head(p) = "%"
         THEN \E k \in 0..Len(s) : Like(Tail(p), SubSeq(s, k + 1, Len(s)))
    ELSE IF s = <<>> THEN FALSE
    ELSE IF Head(p) = "_" THEN Like(Tail(p), Tail(s))
    ELSE ToLower(Head(p)) = ToLower(Head(s)) /\ Like(Tail(p), Tail(s))

(***************************************************************************)
(* Names and credentials used as request inputs.                            *)
(***************************************************************************)
bob     == <<"b", "o", "b">>
Bob     == <<"B", "o", "b">>
amy     == <<"a", "m", "y">>
zed     == <<"z", "e", "d">>            \* never registered
bobPad  == <<" ", "b", "o", "b", " ">>  \* strips to bob
tooShort == <<"b", "o">>
badChar == <<"b", "!", "b">>
onlyMarks == <<"_", "-", "_">>
tooLong == [i \in 1..51 |-> "a"]

NoText == <<>>                          \* None / '' / absent field


\* the encrypted payload of a send request: both fields present, or iv absent
ct1 == "ct1"
iv1 == "iv1"

\* Authorization header: absent, or 'Bearer <token>'.  secrets.token_urlsafe(32)
\* yields a value no client has seen before, so the k-th token issued is
\* <<"tok", k>>, and a client can present an issued token or a made-up one.
NoHeader == <<>>
Bearer(t) == <<"Bearer", t>>
Token(k) == <<"tok", k>>
Forged == <<"forged">>

(***************************************************************************)
(* Bounds of the model.                                                     *)
(***************************************************************************)
NumWorkers == 2      \* requests in flight at once
MaxSessions == 2     \* logins that reach create_session
MaxMessages == 1     \* rows of the messages table
MaxRelayed == 3      \* rows of the messages table where histories are read

\* timedelta(hours=24): the clock counts hours
SESSION_HOURS == 24
\* len(username) < 3 or len(username) > 50; len(password) < 6; len(query) < 2
MIN_USERNAME == 3
MAX_USERNAME == 50
MIN_PASSWORD == 6
MIN_QUERY == 2
\* LIMIT 10 and matching_users[:10]
SEARCH_LIMIT == 10

\* the instants at which requests are observed (hours, UTC), and the
\* offsets of the server's local time zone from UTC (hours)
ClockPoints == {0, 23, 24, 25}
TzOffsets == {-1, 0, 1}

Workers == 1..NumWorkers

(***************************************************************************)
(* State.                                                                   *)
(***************************************************************************)
VARIABLES
    users,      \* users table: sequence of rows in rowid order
    sessions,   \* sessions table: set of rows
    messages,   \* messages table: sequence of rows in rowid order
    clock,      \* the current instant, in hours, UTC (CURRENT_TIMESTAMP)
    tz,         \* offset of the server's local time from UTC, in hours
    issued,     \* number of session tokens generated so far
    req,        \* per worker: the request it is handling, and where it is
    resp,       \* the response on its way to the client, if any
    revoked     \* history: issued tokens for which a logout answered 200

vars == <<users, sessions, messages, clock, tz, issued, req, resp, revoked>>

NoPayload == [encrypted_content |-> "", iv |-> ""]

Idle ==
    [op |-> "none", pc |-> "idle", auth |-> NoHeader, user |-> NoText,
     arg |-> NoText, payload |-> NoPayload]

NoResp ==
    [op |-> "none", auth |-> NoHeader, user |-> NoText, arg |-> NoText,
     payload |-> NoPayload, status |-> 0, body |-> <<>>]

(***************************************************************************)
(* database.py: the store.                                                  *)
(***************************************************************************)
Usernames(tbl) == {tbl[i].username : i \in DOMAIN tbl}

\* username TEXT UNIQUE NOT NULL: BINARY collation, an exact match
UsernameUnique(tbl, username) ==
    \A i \in DOMAIN tbl : tbl[i].username # username

\* create_user as it would be were username not declared UNIQUE
create_user_no_constraint(tbl, username, password_hash, public_key) ==
    [ok |-> TRUE,
     tbl |-> Append(tbl, [username |-> username, password_hash |-> password_hash,
                          public_key |-> public_key])]

\* Database.create_user: True and the row inserted, or False and the table
\* unchanged when the INSERT raises IntegrityError
create_user(tbl, username, password_hash, public_key) ==
    IF UsernameUnique(tbl, username)
    THEN [ok |-> TRUE,
          tbl |-> Append(tbl, [username |-> username,
                               password_hash |-> password_hash,
                               public_key |-> public_key])]
    ELSE [ok |-> FALSE, tbl |-> tbl]

\* Database.get_user: the matching rows (none or one), WHERE username = ?
get_user(username) ==
    {users[i] : i \in {j \in DOMAIN users : users[j].username = username}}

\* Database.get_user_public_key
get_user_public_key(username) == {r.public_key : r \in get_user(username)}

\* werkzeug generate_password_hash / check_password_hash: a one-way value
\* that verifies exactly the password it was made from (the salt is internal
\* to the value and read by nothing else)
generate_password_hash(password) == <<"pbkdf2", password>>
check_password_hash(hash, password) == hash = <<"pbkdf2", password>>

\* datetime.now(): the server's local wall clock
LocalNow == clock + tz

\* Database.get_session: WHERE session_token = ? AND expires_at > CURRENT_TIMESTAMP.
\* Both sides are 'YYYY-MM-DD HH:MM:SS' texts, whose order is that of the
\* instants they spell; CURRENT_TIMESTAMP spells UTC.
get_session(session_token) ==
    {s \in sessions : s.session_token = session_token /\ s.expires_at > clock}

\* delete_session as it would be were the DELETE never committed
delete_session_keep(tbl, session_token) == [ok |-> TRUE, tbl |-> tbl]

\* Database.delete_session: DELETE ... WHERE session_token = ?; commit;
\* return True.  A DELETE that matches no row raises nothing, so the result
\* is True whether or not the token was in the table.
delete_session(tbl, session_token) ==
    [ok |-> TRUE, tbl |-> {s \in tbl : s.session_token # session_token}]

\* create_session as it would be were a user allowed one session only
create_session_single(tbl, username, session_token, expires_at) ==
    {s \in tbl : s.username # username}
        \cup {[session_token |-> session_token, username |-> username,
                expires_at |-> expires_at, created_at |-> clock]}

\* Database.create_session: INSERT (session_token is UNIQUE)
create_session(tbl, username, session_token, expires_at) ==
    tbl \cup {[session_token |-> session_token, username |-> username,
               expires_at |-> expires_at, created_at |-> clock]}

\* Database.store_message: INSERT; timestamp DEFAULT CURRENT_TIMESTAMP.
\* The foreign keys of the table are declared but SQLite does not enforce
\* them unless PRAGMA foreign_keys is set, which get_connection never does.
store_message(tbl, sender, receiver, encrypted_content, iv) ==
    Append(tbl, [id |-> Len(tbl) + 1, sender_username |-> sender,
                 receiver_username |-> receiver,
                 encrypted_content |-> encrypted_content, iv |-> iv,
                 timestamp |-> clock])


(***************************************************************************)
(* Request plumbing.  A handler that returns puts its response in resp and  *)
(* frees its worker; the client then takes the response (Deliver).          *)
(***************************************************************************)
Free(w) == req[w].pc = "idle" /\ resp = NoResp

\* a handler that answers in its first step
Respond(w, op, auth, user, arg, payload, status, body) ==
    /\ resp' = [op |-> op, auth |-> auth, user |-> user, arg |-> arg,
                payload |-> payload, status |-> status, body |-> body]
    /\ req' = req

\* a handler that answers in a later step
Finish(w, status, body) ==
    /\ resp = NoResp
    /\ resp' = [op |-> req[w].op, auth |-> req[w].auth, user |-> req[w].user,
                arg |-> req[w].arg, payload |-> req[w].payload,
                status |-> status, body |-> body]
    /\ req' = [req EXCEPT ![w] = Idle]

\* a handler that goes on to its next statement
Continue(w, rec) ==
    /\ req' = [req EXCEPT ![w] = rec]
    /\ resp' = resp

Deliver ==
    /\ resp # NoResp
    /\ resp' = NoResp
    /\ UNCHANGED <<users, sessions, messages, clock, tz, issued, req, revoked>>

\* auth_header.split(' ')[1]
TokenOf(auth) == auth[2]

(***************************************************************************)
(* routes/auth.py                                                           *)
(***************************************************************************)
\* the status register() reaches before it calls create_user, 0 when every
\* validation passes
RegisterValidation(raw, password, public_key) ==
    LET username == Strip(raw)
    IN  IF raw = NoText \/ password = NoText \/ public_key = "" THEN 400
        ELSE IF Len(username) < MIN_USERNAME \/ Len(username) > MAX_USERNAME
             THEN 400
        ELSE IF ~IsAlnum(Remove(Remove(username, "_"), "-")) THEN 400
        ELSE IF Len(password) < MIN_PASSWORD THEN 400
        ELSE 0

\* POST /auth/register: validation, then one INSERT
Register(w, raw, password, public_key) ==
    /\ Free(w)
    /\ LET username == Strip(raw)
           body == [password |-> password, public_key |-> public_key]
           invalid == RegisterValidation(raw, password, public_key)
           made == create_user(users, username,
                               generate_password_hash(password), public_key)
       IN  IF invalid # 0
           THEN /\ Respond(w, "register", NoHeader, username, raw, body,
                           invalid, <<>>)
                /\ users' = users
           ELSE /\ users' = made.tbl
                /\ IF made.ok
                   THEN Respond(w, "register", NoHeader, username, raw, body,
                                201, <<username>>)
                   ELSE Respond(w, "register", NoHeader, username, raw, body,
                                409, <<>>)
    /\ UNCHANGED <<sessions, messages, clock, tz, issued, revoked>>

\* logins that have passed the password check and not yet stored a session
PendingLogins ==
    Cardinality({w \in Workers : req[w].op = "login" /\ req[w].pc = "create"})

\* login as it would be without the `if not user` and password checks
LoginLookupAnyUser(w, raw, password) ==
    /\ Free(w)
    /\ issued + PendingLogins < MaxSessions
    /\ IF raw = NoText \/ password = NoText
       THEN Respond(w, "login", NoHeader, NoText, raw, NoPayload, 400, <<>>)
       ELSE Continue(w, [Idle EXCEPT !.op = "login", !.pc = "create",
                                     !.user = Strip(raw), !.arg = raw])
    /\ UNCHANGED <<users, sessions, messages, clock, tz, issued, revoked>>

\* POST /auth/login, up to the password check: get_user is one SELECT
LoginLookup(w, raw, password) ==
    /\ Free(w)
    /\ issued + PendingLogins < MaxSessions
    /\ LET username == Strip(raw)
           user == get_user(username)
       IN  IF raw = NoText \/ password = NoText
           THEN Respond(w, "login", NoHeader, NoText, raw, NoPayload, 400, <<>>)
           ELSE IF user = {}
           THEN Respond(w, "login", NoHeader, username, raw, NoPayload, 401, <<>>)
           ELSE IF \A u \in user : ~check_password_hash(u.password_hash, password)
           THEN Respond(w, "login", NoHeader, username, raw, NoPayload, 401, <<>>)
           ELSE Continue(w, [Idle EXCEPT !.op = "login", !.pc = "create",
                                         !.user = username, !.arg = raw])
    /\ UNCHANGED <<users, sessions, messages, clock, tz, issued, revoked>>

\* POST /auth/login, the rest: token, expires_at = datetime.now() + 24 h,
\* create_session (one INSERT)
LoginCreate(w) ==
    /\ req[w].op = "login" /\ req[w].pc = "create"
    /\ LET session_token == Token(issued + 1)
           expires_at == LocalNow + SESSION_HOURS
       IN  /\ sessions' = create_session(sessions, req[w].user, session_token,
                                         expires_at)
           /\ Finish(w, 200, <<session_token>>)
    /\ issued' = issued + 1
    /\ UNCHANGED <<users, messages, clock, tz, revoked>>

\* POST /auth/logout: header check, then delete_session; no lookup of the
\* session precedes the DELETE
Logout(w, auth) ==
    /\ Free(w)
    /\ IF auth = NoHeader
       THEN /\ Respond(w, "logout", auth, NoText, NoText, NoPayload, 401, <<>>)
            /\ UNCHANGED <<sessions, revoked>>
       ELSE LET gone == delete_session(sessions, TokenOf(auth))
            IN  /\ sessions' = gone.tbl
                /\ IF gone.ok
                   THEN /\ Respond(w, "logout", auth, NoText, NoText, NoPayload, 200, <<>>)
                        /\ revoked' = revoked \cup ({TokenOf(auth)} \ {Forged})
                   ELSE /\ Respond(w, "logout", auth, NoText, NoText, NoPayload, 401, <<>>)
                        /\ revoked' = revoked
    /\ UNCHANGED <<users, messages, clock, tz, issued>>

\* GET /auth/verify: header check, then get_session
Verify(w, auth) ==
    /\ Free(w)
    /\ IF auth = NoHeader
       THEN Respond(w, "verify", auth, NoText, NoText, NoPayload, 401, <<>>)
       ELSE LET session == get_session(TokenOf(auth))
            IN  IF session # {}
                THEN \E s \in session :
                        Respond(w, "verify", auth, s.username, NoText,
                                NoPayload, 200, <<s.username>>)
                ELSE Respond(w, "verify", auth, NoText, NoText, NoPayload, 401, <<>>)
    /\ UNCHANGED <<users, sessions, messages, clock, tz, issued, revoked>>

\* require_auth as it would be were current_user taken from any session row
\* rather than from the row of the presented token
require_auth_any_session(w, op, auth, arg, payload) ==
    /\ Free(w)
    /\ IF auth = NoHeader
       THEN Respond(w, op, auth, NoText, arg, payload, 401, <<>>)
       ELSE IF get_session(TokenOf(auth)) = {}
       THEN Respond(w, op, auth, NoText, arg, payload, 401, <<>>)
       ELSE \E s \in sessions :
               Continue(w, [op |-> op, pc |-> "body", auth |-> auth,
                            user |-> s.username, arg |-> arg,
                            payload |-> payload])
    /\ UNCHANGED <<users, sessions, messages, clock, tz, issued, revoked>>

\* require_auth.decorated_function, up to the call of the wrapped handler:
\* header check, get_session, request.current_user = session['username']
require_auth(w, op, auth, arg, payload) ==
    /\ Free(w)
    /\ IF auth = NoHeader
       THEN Respond(w, op, auth, NoText, arg, payload, 401, <<>>)
       ELSE LET session == get_session(TokenOf(auth))
            IN  IF session = {}
                THEN Respond(w, op, auth, NoText, arg, payload, 401, <<>>)
                ELSE \E s \in session :
                        Continue(w, [op |-> op, pc |-> "body", auth |-> auth,
                                     user |-> s.username, arg |-> arg,
                                     payload |-> payload])
    /\ UNCHANGED <<users, sessions, messages, clock, tz, issued, revoked>>


(***************************************************************************)
(* database.py: the queries behind the chat routes.                         *)
(***************************************************************************)
\* ORDER BY username: ascending in the BINARY collation
RECURSIVE SortText(_)
SortText(S) ==
    IF S = {} THEN <<>>
    ELSE LET least == CHOOSE x \in S : \A y \in S : x = y \/ TextLess(x, y)
         IN  <<least>> \o SortText(S \ {least})

\* LIMIT n, and the slice [:n]
Take(s, n) == SubSeq(s, 1, IF Len(s) < n THEN Len(s) ELSE n)

\* the orders an ORDER BY may return the rows S in: every arrangement in
\* which the sort key never decreases (rows with equal keys come in an order
\* SQL leaves open)
Orderings(S, Key(_)) ==
    LET n == Cardinality(S)
    IN  {f \in [1..n -> S] :
            /\ \A i, j \in 1..n : i # j => f[i] # f[j]
            /\ \A i \in 1..(n - 1) : Key(f[i]) <= Key(f[i + 1])}

Rows(tbl) == {tbl[i] : i \in DOMAIN tbl}

\* Database.get_all_users
get_all_users(current_user) ==
    SortText({u \in Usernames(users) : u # current_user})

\* Database.search_users: username LIKE '%' || query || '%' AND username != ?
\* ORDER BY username LIMIT 10
search_users(query, current_user) ==
    Take(SortText({u \in Usernames(users) :
                      /\ Like(<<"%">> \o query \o <<"%">>, u)
                      /\ u # current_user}),
         SEARCH_LIMIT)

\* get_messages as it would be were the pair matched in one direction only
MessagesSelectedOneWay(username, other_username) ==
    IF other_username # NoText
    THEN {m \in Rows(messages) :
             m.sender_username = username /\ m.receiver_username = other_username}
    ELSE {m \in Rows(messages) :
             m.sender_username = username \/ m.receiver_username = username}

\* Database.get_messages: the rows selected.  `if other_username:` takes the
\* first query only for a non-empty other_username.
MessagesSelected(username, other_username) ==
    IF other_username # NoText
    THEN {m \in Rows(messages) :
             \/ m.sender_username = username /\ m.receiver_username = other_username
             \/ m.sender_username = other_username /\ m.receiver_username = username}
    ELSE {m \in Rows(messages) :
             m.sender_username = username \/ m.receiver_username = username}

\* Database.get_messages: ORDER BY timestamp ASC
get_messages(username, other_username) ==
    Orderings(MessagesSelected(username, other_username),
              LAMBDA m : m.timestamp)

\* CASE WHEN sender_username = ? THEN receiver_username ELSE sender_username END
Contact(m, username) ==
    IF m.sender_username = username THEN m.receiver_username
    ELSE m.sender_username

Max(S) == CHOOSE x \in S : \A y \in S : y <= x

\* get_conversations as it would be were the rows grouped by sender and
\* receiver instead of by the derived contact
ConversationRowsPerDirection(username) ==
    LET mine == {m \in Rows(messages) :
                    m.sender_username = username \/ m.receiver_username = username}
    IN  {[contact_username |-> Contact(m, username),
          last_message_time |->
              Max({x.timestamp : x \in {y \in mine :
                      /\ y.sender_username = m.sender_username
                      /\ y.receiver_username = m.receiver_username}})]
         : m \in mine}

\* Database.get_conversations: one row per value of contact_username with
\* MAX(timestamp) over the group
ConversationRows(username) ==
    LET mine == {m \in Rows(messages) :
                    m.sender_username = username \/ m.receiver_username = username}
    IN  {[contact_username |-> c,
          last_message_time |->
              Max({m.timestamp : m \in {x \in mine : Contact(x, username) = c}})]
         : c \in {Contact(m, username) : m \in mine}}

\* Database.get_conversations: ORDER BY last_message_time DESC
get_conversations(username) ==
    Orderings(ConversationRows(username), LAMBDA r : 0 - r.last_message_time)

(***************************************************************************)
(* routes/chat.py: the handlers behind require_auth.                        *)
(***************************************************************************)
InBody(w, op) == req[w].op = op /\ req[w].pc = "body"

\* GET /chat/users
GetUsers(w) ==
    /\ InBody(w, "users")
    /\ Finish(w, 200, get_all_users(req[w].user))
    /\ UNCHANGED <<users, sessions, messages, clock, tz, issued, revoked>>

\* GET /chat/public-key/<username>
GetPublicKey(w) ==
    /\ InBody(w, "public_key")
    /\ LET public_key == get_user_public_key(req[w].arg)
       IN  IF public_key # {}
           THEN \E k \in public_key : Finish(w, 200, <<k>>)
           ELSE Finish(w, 404, <<>>)
    /\ UNCHANGED <<users, sessions, messages, clock, tz, issued, revoked>>

\* sends that passed require_auth and have not answered yet
PendingSends ==
    Cardinality({w \in Workers :
                    req[w].op = "send" /\ req[w].pc \in {"body", "store"}})

\* send as it would be without the `if not receiver` check
SendCheckNoReceiver(w) ==
    /\ InBody(w, "send")
    /\ IF \/ req[w].arg = NoText
          \/ req[w].payload.encrypted_content = ""
          \/ req[w].payload.iv = ""
       THEN Finish(w, 400, <<>>)
       ELSE Continue(w, [req[w] EXCEPT !.pc = "store"])
    /\ UNCHANGED <<users, sessions, messages, clock, tz, issued, revoked>>

\* POST /chat/send, up to the receiver check: required fields, then
\* get_user(receiver_username)
SendCheck(w) ==
    /\ InBody(w, "send")
    /\ IF \/ req[w].arg = NoText
          \/ req[w].payload.encrypted_content = ""
          \/ req[w].payload.iv = ""
       THEN Finish(w, 400, <<>>)
       ELSE IF get_user(req[w].arg) = {}
       THEN Finish(w, 404, <<>>)
       ELSE Continue(w, [req[w] EXCEPT !.pc = "store"])
    /\ UNCHANGED <<users, sessions, messages, clock, tz, issued, revoked>>

\* POST /chat/send, the rest: store_message (one INSERT)
SendStore(w) ==
    /\ req[w].op = "send" /\ req[w].pc = "store"
    /\ messages' = store_message(messages, req[w].user, req[w].arg,
                                 req[w].payload.encrypted_content,
                                 req[w].payload.iv)
    /\ Finish(w, 201, <<req[w].user, req[w].arg>>)
    /\ UNCHANGED <<users, sessions, clock, tz, issued, revoked>>

\* GET /chat/messages?with=<other>
GetMessages(w) ==
    /\ InBody(w, "messages")
    /\ \E result \in get_messages(req[w].user, req[w].arg) :
          Finish(w, 200, result)
    /\ UNCHANGED <<users, sessions, messages, clock, tz, issued, revoked>>

\* GET /chat/conversations
GetConversations(w) ==
    /\ InBody(w, "conversations")
    /\ \E result \in get_conversations(req[w].user) : Finish(w, 200, result)
    /\ UNCHANGED <<users, sessions, messages, clock, tz, issued, revoked>>

\* GET /chat/search-users?q=<query>
SearchUsers(w) ==
    /\ InBody(w, "search")
    /\ LET query == Strip(req[w].arg)
       IN  IF Len(query) < MIN_QUERY
           THEN Finish(w, 400, <<>>)
           ELSE Finish(w, 200,
                       Take(search_users(query, req[w].user), SEARCH_LIMIT))
    /\ UNCHANGED <<users, sessions, messages, clock, tz, issued, revoked>>

\* time passes between two statements
Tick ==
    /\ \E t \in ClockPoints : t > clock /\ clock' = t
    /\ UNCHANGED <<users, sessions, messages, tz, issued, req, resp, revoked>>


(***************************************************************************)
(* Request inputs.                                                          *)
(***************************************************************************)
secret1 == <<"s", "e", "c", "r", "e", "t", "1">>
secret2 == <<"s", "e", "c", "r", "e", "t", "2">>
weak    == <<"a", "b", "c">>

\* register bodies: <<username, password, public_key>>
RegInputs ==
    {<<bob, secret1, "pkA">>, <<Bob, secret2, "pkB">>, <<tooShort, secret1, "pkA">>}

\* every way register() can refuse a body, a padded username, and a second
\* registration of a name with other credentials
RegInputsAll ==
    RegInputs \cup
    {<<bob, secret2, "pkB">>, <<bobPad, secret2, "pkC">>, <<amy, secret1, "pkA">>,
     <<badChar, secret1, "pkA">>, <<onlyMarks, secret1, "pkA">>,
     <<tooLong, secret1, "pkA">>, <<bob, weak, "pkA">>,
     <<bob, secret1, "">>, <<NoText, secret1, "pkA">>,
     <<bob, NoText, "pkA">>}

\* login bodies: <<username, password>>
LoginInputs == {<<bob, secret1>>, <<Bob, secret2>>, <<NoText, secret1>>}

\* what a client can put in the Authorization header
Headers == {NoHeader, Bearer(Forged)} \cup {Bearer(Token(k)) : k \in 1..issued}

Payloads ==
    {[encrypted_content |-> ct1, iv |-> iv1], [encrypted_content |-> ct1, iv |-> ""]}

Row(username, password, public_key) ==
    [username |-> username, password_hash |-> generate_password_hash(password),
     public_key |-> public_key]

(***************************************************************************)
(* The system from an empty database: registration, login, logout and the   *)
(* sending of messages, by requests that interleave.  No time passes here,  *)
(* so no session expires and the time zone plays no part; SpecSession is    *)
(* where the clock runs.                                                    *)
(***************************************************************************)
Init ==
    /\ users = <<>>
    /\ sessions = {}
    /\ messages = <<>>
    /\ clock = 0
    /\ tz = 0
    /\ issued = 0
    /\ req = [w \in Workers |-> Idle]
    /\ resp = NoResp
    /\ revoked = {}

DoRegister == \E w \in Workers, in \in RegInputs : Register(w, in[1], in[2], in[3])

DoLoginLookup == \E w \in Workers, in \in LoginInputs : LoginLookup(w, in[1], in[2])

DoLoginCreate == \E w \in Workers : LoginCreate(w)

DoLogout == \E w \in Workers, auth \in Headers : Logout(w, auth)

DoVerify == \E w \in Workers, auth \in Headers : Verify(w, auth)

DoSendAuth ==
    /\ Len(messages) + PendingSends < MaxMessages
    /\ \E w \in Workers, auth \in Headers, receiver \in {Bob, zed},
          payload \in Payloads :
          require_auth(w, "send", auth, receiver, payload)

DoSendCheck == \E w \in Workers : SendCheck(w)

DoSendStore == \E w \in Workers : SendStore(w)

Next ==
    \/ DoRegister
    \/ DoLoginLookup
    \/ DoLoginCreate
    \/ DoLogout
    \/ DoSendAuth
    \/ DoSendCheck
    \/ DoSendStore
    \/ Deliver

Spec == Init /\ [][Next]_vars

(***************************************************************************)
(* Registration alone, with every kind of request body.                     *)
(***************************************************************************)
DoRegisterAll ==
    \E w \in Workers, in \in RegInputsAll : Register(w, in[1], in[2], in[3])

NextRegister == DoRegisterAll \/ Deliver

SpecRegister == Init /\ [][NextRegister]_vars

(***************************************************************************)
(* The life of sessions: bob and amy are registered; logins, logouts,       *)
(* validations and the passing of time.                                     *)
(***************************************************************************)
InitSession ==
    /\ users = <<Row(bob, secret1, "pkA"), Row(amy, secret2, "pkB")>>
    /\ sessions = {}
    /\ messages = <<>>
    /\ clock = 0
    /\ tz \in TzOffsets
    /\ issued = 0
    /\ req = [w \in Workers |-> Idle]
    /\ resp = NoResp
    /\ revoked = {}

DoLoginSession ==
    \E w \in Workers, in \in {<<bob, secret1>>, <<amy, secret2>>, <<amy, secret1>>} :
        LoginLookup(w, in[1], in[2])

DoUsersAuth ==
    \E w \in Workers, auth \in Headers :
        require_auth(w, "users", auth, NoText, NoPayload)

DoGetUsers == \E w \in Workers : GetUsers(w)

NextSession ==
    \/ DoLoginSession
    \/ DoLoginCreate
    \/ DoLogout
    \/ DoVerify
    \/ DoUsersAuth
    \/ DoGetUsers
    \/ Tick
    \/ Deliver

SpecSession == InitSession /\ [][NextSession]_vars


(***************************************************************************)
(* The relay: bob, amy and Bob are registered, bob and amy are logged in;   *)
(* messages are sent and histories and conversation lists are read, one     *)
(* request at a time.                                                       *)
(***************************************************************************)
InitRelay ==
    /\ clock = 0
    /\ tz = 0
    /\ users = <<Row(bob, secret1, "pkA"), Row(amy, secret2, "pkB"),
                 Row(Bob, secret2, "pkC")>>
    /\ sessions = create_session(
                      create_session({}, bob, Token(1), LocalNow + SESSION_HOURS),
                      amy, Token(2), LocalNow + SESSION_HOURS)
    /\ messages = <<>>
    /\ issued = 2
    /\ req = [w \in Workers |-> Idle]
    /\ resp = NoResp
    /\ revoked = {}

DoRelaySendAuth ==
    /\ Len(messages) + PendingSends < MaxRelayed
    /\ \E auth \in Headers, receiver \in {bob, amy, Bob} :
          require_auth(1, "send", auth, receiver,
                       [encrypted_content |-> ct1, iv |-> iv1])

DoMessagesAuth ==
    \E auth \in Headers, other \in {NoText, bob, amy, Bob, zed} :
        require_auth(1, "messages", auth, other, NoPayload)

DoGetMessages == GetMessages(1)

DoConversationsAuth ==
    \E auth \in Headers : require_auth(1, "conversations", auth, NoText, NoPayload)

DoGetConversations == GetConversations(1)

NextRelay ==
    \/ DoRelaySendAuth
    \/ DoSendCheck
    \/ DoSendStore
    \/ DoMessagesAuth
    \/ DoGetMessages
    \/ DoConversationsAuth
    \/ DoGetConversations
    \/ Tick
    \/ Deliver

SpecRelay == InitRelay /\ [][NextRelay]_vars

(***************************************************************************)
(* The user directory: a table of registered users, two of them logged in;  *)
(* searches and public-key lookups, one request at a time.                  *)
(***************************************************************************)
b_b == <<"b", "_", "b">>
a_y == <<"a", "-", "y">>

\* twelve names that all contain "ua"
ManyNames ==
    {<<"u", "a", Digits[i]>> : i \in DOMAIN Digits}
    \cup {<<"u", "a", "A">>, <<"u", "a", "b">>}

\* the sets of usernames the directory is searched over
Directories ==
    {S \in SUBSET {bob, Bob, amy, b_b, a_y} : Cardinality(S) >= 2} \cup {ManyNames}

\* the q parameter of a search
Queries ==
    {<<"o", "b">>, <<"O", "B">>, <<" ", "o", "b", " ">>, <<"b", "_", "b">>,
     <<"_", "b">>, <<"-", "y">>, <<"u", "a">>, <<"z", "z">>, <<"b">>, NoText}

InitSearch ==
    /\ clock = 0
    /\ tz = 0
    /\ \E S \in Directories :
          LET names == SortText(S)
          IN  /\ users = [i \in DOMAIN names |-> Row(names[i], secret1, "pkA")]
              /\ sessions = create_session(
                                create_session({}, names[1], Token(1),
                                               LocalNow + SESSION_HOURS),
                                names[2], Token(2), LocalNow + SESSION_HOURS)
    /\ messages = <<>>
    /\ issued = 2
    /\ req = [w \in Workers |-> Idle]
    /\ resp = NoResp
    /\ revoked = {}

DoSearchAuth ==
    \E auth \in Headers, q \in Queries :
        require_auth(1, "search", auth, q, NoPayload)

DoSearchUsers == SearchUsers(1)

DoPublicKeyAuth ==
    \E auth \in Headers, username \in {bob, Bob, zed} :
        require_auth(1, "public_key", auth, username, NoPayload)

DoGetPublicKey == GetPublicKey(1)

NextSearch ==
    \/ DoSearchAuth
    \/ DoSearchUsers
    \/ DoPublicKeyAuth
    \/ DoGetPublicKey
    \/ Deliver

SpecSearch == InitSearch /\ [][NextSearch]_vars

(***************************************************************************)
(* C1.  Registration is atomic on the exact username.                       *)
(***************************************************************************)
\* a register request is answered in this step
RegisterAnswered == resp = NoResp /\ resp'.op = "register"

\* C1: a register request that passes field validation answers 201 exactly
\* when no row holds its (stripped, case-sensitive) username and 409 exactly
\* when one does; the 201 appends the row made from that request's password
\* and public key, the 409 changes nothing, no step ever changes or removes a
\* row, and the table never holds two rows for one username.  Hence of all
\* registrations of a name exactly the first succeeds and its row stays.
C1_RegisterOnce ==
    /\ [](\A i, j \in DOMAIN users : users[i].username = users[j].username => i = j)
    /\ [][/\ Len(users') >= Len(users)
          /\ \A i \in DOMAIN users : users'[i] = users[i]
          /\ (RegisterAnswered
                 /\ RegisterValidation(resp'.arg, resp'.payload.password,
                                       resp'.payload.public_key) = 0)
             => /\ resp'.status \in {201, 409}
                /\ resp'.status = 201 <=> resp'.user \notin Usernames(users)
                /\ resp'.status = 409 => users' = users
                /\ resp'.status = 201 =>
                      users' = Append(users,
                                      Row(resp'.user, resp'.payload.password,
                                          resp'.payload.public_key))]_vars

\* bob is registered with secret1/pkA, Bob (another name) is registered too,
\* and a later registration of bob with other credentials was refused
C1_Witness ==
    /\ resp.op = "register" /\ resp.status = 409 /\ resp.user = bob
    /\ resp.payload.password = secret2
    /\ \E i, j \in DOMAIN users :
          /\ users[i] = Row(bob, secret1, "pkA")
          /\ users[j].username = Bob


(***************************************************************************)
(* C2 - C5.  Sessions: expiry, revocation, the authentication gate.         *)
(***************************************************************************)
\* the routes that take a Bearer token
Protected ==
    {"logout", "verify", "users", "public_key", "send", "messages",
     "conversations", "search"}

\* the token has a row in the sessions table
InStore(t) == \E s \in sessions : s.session_token = t

\* the header carries no token that get_session accepts now
Invalid(auth) == auth = NoHeader \/ get_session(TokenOf(auth)) = {}

\* a handler answers in the step in which it is called
AnsweredAtOnce == resp = NoResp /\ resp' # NoResp /\ req' = req

\* the gate lets worker w through to the wrapped handler in this step
GatePassed(w) == req[w].pc = "idle" /\ req'[w].pc = "body"

\* C2: a verify of a token whose session row exists answers 200 exactly when
\* the current instant is before the row's created_at + 24 h.
C2_ValidUntil24h ==
    \A s \in sessions :
        (resp.op = "verify" /\ resp.auth = Bearer(s.session_token))
        => (resp.status = 200 <=> clock < s.created_at + SESSION_HOURS)

\* C3: once a logout of token t has answered 200, t has no valid session in
\* any later state, a verify of t answers 401, and the gate of a chat route
\* never lets a request with t through.
C3_RevokedIsTerminal ==
    /\ [](\A t \in revoked :
            /\ get_session(t) = {}
            /\ (resp.op = "verify" /\ resp.auth = Bearer(t)) => resp.status = 401)
    /\ [][/\ \A w \in Workers :
                GatePassed(w) => TokenOf(req'[w].auth) \notin revoked
          /\ (AnsweredAtOnce /\ resp'.op \in Protected \ {"logout"}
                 /\ resp'.auth # NoHeader /\ TokenOf(resp'.auth) \in revoked)
             => resp'.status = 401
          /\ revoked \subseteq revoked']_vars

\* token 1 was revoked well before its expiry, its owner has logged in again
\* and holds a valid session, and a verify of token 1 has just answered 401
C3_Witness ==
    /\ Token(1) \in revoked
    /\ clock < 23 + tz
    /\ resp.op = "verify" /\ resp.auth = Bearer(Token(1)) /\ resp.status = 401
    /\ \E s \in sessions :
          /\ s.session_token = Token(2)
          /\ get_session(Token(2)) # {}
          /\ \A r \in Workers : req[r].pc = "idle"

\* C4: a protected route called with no token, or with a token that
\* get_session does not accept at that instant, answers 401 with no data and
\* leaves the three tables as they were; and no request gets past the gate
\* with such a token.
C4_AuthBeforeAnything ==
    [][/\ (AnsweredAtOnce /\ resp'.op \in Protected /\ Invalid(resp'.auth))
          => /\ resp'.status = 401
             /\ resp'.body = <<>>
             /\ UNCHANGED <<users, sessions, messages>>
       /\ \A w \in Workers : GatePassed(w) => ~Invalid(req'[w].auth)]_vars

\* C5: a logout with a token that has no row in the sessions table answers 401.
C5_LogoutUnknownIs401 ==
    [][(AnsweredAtOnce /\ resp'.op = "logout" /\ resp'.auth # NoHeader
           /\ ~InStore(TokenOf(resp'.auth)))
       => resp'.status = 401]_vars


(***************************************************************************)
(* C8, C9.  Messages are written only between registered users.             *)
(***************************************************************************)
\* worker w is past the gate of a send and runs its checks in this step
SendChecked(w) == req[w].op = "send" /\ req[w].pc = "body" /\ req'[w] # req[w]

\* the required fields of w's send request are all present and non-empty
FieldsPresent(w) ==
    /\ req[w].arg # NoText
    /\ req[w].payload.encrypted_content # ""
    /\ req[w].payload.iv # ""

\* C8 as stated: a send of an authenticated user whose receiver_username is
\* not registered answers 404 and writes no row.
C8_UnknownReceiverIs404 ==
    [][\A w \in Workers :
          (SendChecked(w) /\ get_user(req[w].arg) = {})
          => (resp'.op = "send" /\ resp'.status = 404 /\ messages' = messages)]_vars

\* C8 amended: a send that is past the gate and carries all required fields
\* answers 404 when its receiver_username is not registered, and 400 when a
\* required field is missing, whatever the receiver; neither writes a row.
\* A row is written only by a request whose receiver was found by get_user,
\* and it names that receiver; every other answer of send leaves the
\* messages table as it was.
C8_UnknownReceiverNoRow ==
    /\ [](\A w \in Workers :
            (req[w].op = "send" /\ req[w].pc = "store") => get_user(req[w].arg) # {})
    /\ [][/\ \A w \in Workers :
                SendChecked(w)
                => /\ (FieldsPresent(w) /\ get_user(req[w].arg) = {})
                      => (resp'.op = "send" /\ resp'.status = 404)
                   /\ ~FieldsPresent(w) => (resp'.op = "send" /\ resp'.status = 400)
                   /\ messages' = messages
          /\ messages' # messages
             => \E w \in Workers :
                   /\ req[w].op = "send" /\ req[w].pc = "store"
                   /\ get_user(req[w].arg) # {}
                   /\ Len(messages') = Len(messages) + 1
                   /\ SubSeq(messages', 1, Len(messages)) = messages
                   /\ messages'[Len(messages')].receiver_username = req[w].arg
                   /\ resp'.op = "send" /\ resp'.status = 201
          /\ (resp = NoResp /\ resp'.op = "send" /\ resp'.status # 201)
             => messages' = messages]_vars

\* bob and Bob are registered, and a send of the logged-in bob to the
\* unregistered zed, all fields present, has answered 404; no row is stored
C8_Witness ==
    /\ resp.op = "send" /\ resp.status = 404 /\ resp.arg = zed
    /\ resp.payload.iv = iv1
    /\ resp.user = bob
    /\ Usernames(users) = {bob, Bob}
    /\ get_session(TokenOf(resp.auth)) # {}
    /\ messages = <<>>

\* C9: the sender and the receiver of every row of the messages table are
\* usernames of rows of the users table.
C9_MessagesReferenceUsers ==
    \A i \in DOMAIN messages :
        /\ messages[i].sender_username \in Usernames(users)
        /\ messages[i].receiver_username \in Usernames(users)

\* two registered users and a message from one to the other, whose sender
\* has since logged out
C9_Witness ==
    /\ Len(messages) = 1
    /\ messages[1].sender_username = bob /\ messages[1].receiver_username = Bob
    /\ revoked # {}
    /\ sessions = {}



(***************************************************************************)
(* C6, C7.  Conversation lists and histories.                               *)
(***************************************************************************)
\* the messages exchanged between u and v, in either direction
Between(u, v) ==
    {m \in Rows(messages) :
        \/ m.sender_username = u /\ m.receiver_username = v
        \/ m.sender_username = v /\ m.receiver_username = u}

\* history(u): every message u sent or received
History(u) ==
    {m \in Rows(messages) : m.sender_username = u \/ m.receiver_username = u}

\* the counterparts of u: the parties, other than u, of the messages of u
Counterparts(u) ==
    {p \in {m.sender_username : m \in History(u)}
           \cup {m.receiver_username : m \in History(u)} : p # u}

\* the list has one entry per member of `contacts`, none twice, each with
\* the latest timestamp of the exchange with that contact, latest first
ConversationListOf(list, u, contacts) ==
    /\ {list[i].contact_username : i \in DOMAIN list} = contacts
    /\ \A i, j \in DOMAIN list :
          list[i].contact_username = list[j].contact_username => i = j
    /\ \A i \in DOMAIN list :
          /\ Between(u, list[i].contact_username) # {}
          /\ list[i].last_message_time =
                Max({m.timestamp : m \in Between(u, list[i].contact_username)})
    /\ \A i, j \in DOMAIN list :
          i < j => list[i].last_message_time >= list[j].last_message_time

ConversationsAnswered == resp.op = "conversations" /\ resp.status = 200

\* C6 as stated: conversations(u) has exactly one entry per counterpart of u
\* (a party other than u), with the latest timestamp of the exchange in
\* either direction, ordered latest first.
C6_OnePerCounterpart ==
    ConversationsAnswered
    => ConversationListOf(resp.body, resp.user, Counterparts(resp.user))

\* C6 amended: conversations(u) has exactly one entry per counterpart of u,
\* and one more entry, whose contact is u itself, when u has sent itself a
\* message; each with the latest timestamp of the exchange with that contact
\* in either direction, ordered latest first.
C6_OnePerContact ==
    ConversationsAnswered
    => ConversationListOf(resp.body, resp.user,
                          Counterparts(resp.user)
                          \cup {c \in {resp.user} : Between(resp.user, c) # {}})

\* bob wrote to amy at 0, amy answered at 23, bob wrote to himself; his list
\* has amy with time 23 and himself
C6_Witness ==
    /\ ConversationsAnswered /\ resp.user = bob
    /\ Len(resp.body) = 2
    /\ \E m \in Rows(messages) :
          m.sender_username = bob /\ m.receiver_username = amy /\ m.timestamp = 0
    /\ \E i \in DOMAIN resp.body :
          resp.body[i].contact_username = amy /\ resp.body[i].last_message_time = 23
    /\ \E i \in DOMAIN resp.body : resp.body[i].contact_username = bob

\* the list holds exactly the rows of S, each once, timestamps ascending
HistoryListOf(list, S) ==
    /\ Range(list) = S
    /\ Len(list) = Cardinality(S)
    /\ \A i, j \in DOMAIN list : i < j => list[i].timestamp <= list[j].timestamp

MessagesAnswered == resp.op = "messages" /\ resp.status = 200

\* C7 as stated: for every username v, history(u, v) is history(u) filtered
\* to the rows whose sender or receiver is v, timestamps ascending.
C7_FilterOfHistory ==
    (MessagesAnswered /\ resp.arg # NoText)
    => HistoryListOf(resp.body,
                     {m \in History(resp.user) :
                         m.sender_username = resp.arg \/ m.receiver_username = resp.arg})

\* C7 amended: for every username v other than u, history(u, v) is history(u)
\* filtered to the rows whose sender or receiver is v; history(u, u) is the
\* rows u sent to itself; both with timestamps ascending.
C7_FilterOfHistoryOther ==
    (MessagesAnswered /\ resp.arg # NoText)
    => HistoryListOf(resp.body,
                     IF resp.arg # resp.user
                     THEN {m \in History(resp.user) :
                              \/ m.sender_username = resp.arg
                              \/ m.receiver_username = resp.arg}
                     ELSE {m \in History(resp.user) :
                              /\ m.sender_username = resp.user
                              /\ m.receiver_username = resp.user})

\* bob and amy have written to each other, bob has also written to Bob, and
\* bob's history with amy has just been returned: two rows, both directions
C7_Witness ==
    /\ MessagesAnswered /\ resp.user = bob /\ resp.arg = amy
    /\ Len(messages) = 3
    /\ Len(resp.body) = 2
    /\ resp.body[1].sender_username # resp.body[2].sender_username
    /\ \E m \in Rows(messages) : m.receiver_username = Bob


(***************************************************************************)
(* C10.  Search.                                                            *)
(***************************************************************************)
\* text s contains q, ignoring the case of ASCII letters
LowerText(s) == [i \in DOMAIN s |-> ToLower(s[i])]

ContainsNoCase(s, q) ==
    \E k \in 1..(Len(s) - Len(q) + 1) :
        LowerText(SubSeq(s, k, k + Len(q) - 1)) = LowerText(q)

SearchAnswered == resp.op = "search" /\ resp.status = 200

\* C10: a search with a query q of at least 2 characters, made of letters,
\* digits, '-' and '_', by user c returns the first 10, in the order of the
\* text, of the registered usernames other than c that contain q ignoring
\* case.
C10_SearchIsSubstring ==
    SearchAnswered
    => resp.body =
          Take(SortText({u \in Usernames(users) :
                            ContainsNoCase(u, Strip(resp.arg)) /\ u # resp.user}),
               SEARCH_LIMIT)


(***************************************************************************)
(* C11.  Sessions are independent of one another.                           *)
(***************************************************************************)
\* the tokens that get_session accepts now
ValidTokens == {s.session_token : s \in {r \in sessions : get_session(r.session_token) # {}}}

\* a login stores its session in this step
LoginStored == \E w \in Workers : req[w].op = "login" /\ req[w].pc = "create"
                                   /\ req'[w].pc = "idle"

\* a logout that carries a token answers in this step
LogoutAnswered == AnsweredAtOnce /\ resp'.op = "logout" /\ resp'.auth # NoHeader

\* C11: a login that succeeds adds one session row under a token no row
\* had, and keeps every row there was, so that a user may hold several valid
\* sessions; a logout with token t removes the rows of t and no other, so
\* that every other token get_session accepted before it, of the same user
\* or of another, is accepted after it with the same owner.
C11_SessionsIndependent ==
    [][/\ LoginStored
          => /\ sessions \subseteq sessions'
             /\ Cardinality(sessions') = Cardinality(sessions) + 1
             /\ \A n \in sessions' \ sessions : ~InStore(n.session_token)
             /\ ValidTokens \subseteq ValidTokens'
       /\ LogoutAnswered
          => /\ sessions' = {s \in sessions :
                                s.session_token # TokenOf(resp'.auth)}
             /\ \A t \in ValidTokens \ {TokenOf(resp'.auth)} :
                    get_session(t)' = get_session(t) /\ get_session(t) # {}]_vars

\* bob held the valid sessions of tokens 1 and 2 at once: a request of his
\* is past the gate under token 1, a logout of token 1 has just answered
\* 200, and token 2 is still his and still accepted
C11_Witness ==
    /\ resp.op = "logout" /\ resp.status = 200 /\ resp.auth = Bearer(Token(1))
    /\ Token(1) \in revoked
    /\ \E w \in Workers : /\ req[w].pc = "body"
                           /\ req[w].auth = Bearer(Token(1))
                           /\ req[w].user = bob
    /\ \E s \in get_session(Token(2)) : s.username = bob


(***************************************************************************)
(* C12.  The sender of a stored message, under interleaving.                *)
(***************************************************************************)
\* worker w is between the gate of a send and its answer
SendInFlight(w) == req[w].op = "send" /\ req[w].pc \in {"body", "store"}

\* the usernames of the rows of token t
OwnerOf(t) == {s.username : s \in {r \in sessions : r.session_token = t}}

\* C12: a send gets past the gate only with a token get_session accepts at
\* that instant and not yet revoked, and from then to its answer it carries
\* the presented token and that token's owner; the only change made to the
\* messages table is the append, by such a request, of one row whose sender
\* is the owner it carries; and while a send is in flight its token either
\* still has its row, owned by the carried user, or was revoked after the
\* gate let the request through.
C12_SenderIsTokenOwner ==
    /\ [](\A w \in Workers :
            SendInFlight(w)
            => \/ OwnerOf(TokenOf(req[w].auth)) = {req[w].user}
               \/ /\ TokenOf(req[w].auth) \in revoked
                  /\ OwnerOf(TokenOf(req[w].auth)) = {})
    /\ [][/\ \A w \in Workers :
                (GatePassed(w) /\ req'[w].op = "send")
                => /\ TokenOf(req'[w].auth) \notin revoked
                   /\ \E s \in get_session(TokenOf(req'[w].auth)) :
                         req'[w].user = s.username
          /\ \A w \in Workers :
                (SendInFlight(w) /\ req'[w].pc # "idle")
                => /\ req'[w].user = req[w].user
                   /\ req'[w].auth = req[w].auth
                   /\ req'[w].op = "send"
          /\ messages' # messages
             => \E w \in Workers :
                   /\ req[w].op = "send" /\ req[w].pc = "store"
                   /\ req'[w].pc = "idle"
                   /\ resp'.auth = req[w].auth
                   /\ Len(messages') = Len(messages) + 1
                   /\ SubSeq(messages', 1, Len(messages)) = messages
                   /\ messages'[Len(messages')].sender_username = req[w].user
          /\ revoked \subseteq revoked']_vars

\* bob's send has just stored its row and answered 201 although token 1,
\* under which it passed the gate, was revoked before the insert; the row's
\* sender is bob
C12_Witness ==
    /\ resp.op = "send" /\ resp.status = 201 /\ resp.auth = Bearer(Token(1))
    /\ resp.user = bob
    /\ Token(1) \in revoked /\ get_session(Token(1)) = {}
    /\ Len(messages) = 1
    /\ messages[1].sender_username = bob /\ messages[1].receiver_username = Bob

====
